---------------------------- MODULE Spec2Model ----------------------------
(***************************************************************************)
(* Product discovery agent: the MCP JSON-RPC dispatcher and its search     *)
(* engine (p_discovery_agent/mcp_server_http.py), the cloud-function       *)
(* variant of the search engine (gcp_simulation/main.py) and the catalog   *)
(* ETL (etl/ingest.py), over an abstract Milvus collection.                *)
(*                                                                         *)
(* Text is a sequence of lexemes (TLA+ strings): concatenating texts is    *)
(* concatenating sequences, and the double quote is a lexeme of its own,   *)
(* so that interpolating a text into a filter expression and lexing the    *)
(* expression again are two different operations.                          *)
(***************************************************************************)
EXTENDS Integers, Sequences, FiniteSets, TLC

VARIABLES
    embedding_model,  \* TRUE: the SentenceTransformer is loaded; FALSE: None
    MILVUS_READY,     \* the server's readiness flag
    collection,       \* the server's collection handle: TRUE once bound, FALSE: None
    milvus_up,        \* whether connections.connect succeeds
    db,               \* the Milvus collection "products" as the server holds it
    request,          \* the body of the request handled last
    response,         \* what the transport sends back for it
    calls,            \* the backend calls made while handling it
    srv_pc,           \* where the server's module initialisation stands
    etl_pc,           \* where the ETL run stands
    etl_file,         \* products.json as the ETL run finds it
    etl_products,     \* main's local `products`
    etl_embeddings,   \* main's local `embeddings`
    served_before,    \* the collection as it was when the ETL run started
    etl_log,          \* the operations the ETL run has performed on the index
    observed,         \* the collection as the last read found it
    scored            \* the hits the relevance transform has been applied to

vars == <<embedding_model, MILVUS_READY, collection, milvus_up, db, request,
          response, calls, srv_pc, etl_pc, etl_file, etl_products,
          etl_embeddings, served_before, etl_log, observed, scored>>

-----------------------------------------------------------------------------
(* Bounds of the model *)

\* coordinates of an embedding are multiples of 1 / CoordUnit
CoordUnit == 2
\* the largest price a request or a product carries (prices in tens of euros)
MaxPrice == 12
\* hits scored in one run of the relevance transform
MaxHits == 2
\* distances up to MaxNear / DistUnit are scored, and one far distance
MaxNear == 70
FarDistance == 8000

\* a misreporting index lowers its distances by up to MaxBias / DistUnit
MaxBias == 6

\* a distance n stands for n / DistUnit (the squared L2 norm of coordinates)
DistUnit == CoordUnit * CoordUnit

-----------------------------------------------------------------------------
(* Python and JSON values *)

Str(s) == IF s = "" THEN <<>> ELSE <<s>>
Quote == "\""

JNull == [t |-> "null", n |-> 0, s |-> <<>>, b |-> FALSE]
JNum(n) == [t |-> "num", n |-> n, s |-> <<>>, b |-> FALSE]
JStr(s) == [t |-> "str", n |-> 0, s |-> s, b |-> FALSE]
JBool(b) == [t |-> "bool", n |-> 0, s |-> <<>>, b |-> b]

\* Python truthiness of a JSON value (`if category:`)
Truthy(v) ==
    CASE v.t = "null" -> FALSE
      [] v.t = "num" -> v.n # 0
      [] v.t = "str" -> v.s # <<>>
      [] v.t = "bool" -> v.b

\* d.get(key, default) on a mapping
Get(d, key, default) == IF key \in DOMAIN d THEN d[key] ELSE default

\* f"{n}" of an integer and the index's reading of a numeric literal
NumRange == -1 .. (MaxPrice + 100)
FormatNum(n) == ToString(n)
IsNumLex(s) == \E n \in NumRange : FormatNum(n) = s
ParseNum(s) == CHOOSE n \in NumRange : FormatNum(n) = s

RECURSIVE Join(_, _)
\* sep.join(parts) over texts
Join(parts, sep) ==
    IF parts = <<>> THEN <<>>
    ELSE IF Len(parts) = 1 THEN parts[1]
    ELSE parts[1] \o sep \o Join(Tail(parts), sep)

-----------------------------------------------------------------------------
(* The embedding provider and the catalog *)

\* SentenceTransformer.encode: text -> vector, a black box with a fixed table
Encode(text) ==
    CASE text = <<"shoes">> -> <<0, 0>>
      [] text = <<"jacket">> -> <<4, 0>>
      [] text = <<"d1">> -> <<0, 0>>
      [] text = <<"d2">> -> <<1, 0>>
      [] text = <<"d3">> -> <<2, 2>>
      [] text = <<"d4">> -> <<3, 1>>
      [] OTHER -> <<5, 5>>

\* metric_type L2: the squared Euclidean distance, in units of 1 / DistUnit
L2(a, b) == (a[1] - b[1]) * (a[1] - b[1]) + (a[2] - b[2]) * (a[2] - b[2])

Product(id, name, desc, cat, price, stock, brand) ==
    [product_id |-> id, name |-> Str(name), description |-> Str(desc),
     category |-> Str(cat), price |-> price, in_stock |-> stock,
     brand |-> Str(brand)]

\* the records of products.json
SourceRecords ==
    << Product(1, "Trail Runner", "d1", "Footwear", 8, TRUE, "ActiveGear"),
       Product(2, "Summit Boot", "d2", "Footwear", MaxPrice, FALSE, "TrailPro"),
       Product(3, "Rain Shell", "d3", "Clothing", 5, TRUE, "ActiveGear"),
       Product(4, "Headlamp", "d4", "Electronics", 10, TRUE, "TrailPro") >>

\* a row of the collection: the record and its embedding
Row(p, e) == [entity |-> p, embedding |-> e]


-----------------------------------------------------------------------------
(* The vector index: Milvus' filter expressions and Collection.search *)

RECURSIVE Tokens(_, _, _)
\* the lexer: a quote opens a string literal that runs to the next quote
Tokens(lexs, inStr, cur) ==
    IF lexs = <<>>
    THEN IF inStr THEN <<[k |-> "err", v |-> cur]>> ELSE <<>>
    ELSE IF Head(lexs) = Quote
    THEN IF inStr
         THEN <<[k |-> "str", v |-> cur]>> \o Tokens(Tail(lexs), FALSE, <<>>)
         ELSE Tokens(Tail(lexs), TRUE, <<>>)
    ELSE IF inStr
    THEN Tokens(Tail(lexs), TRUE, cur \o <<Head(lexs)>>)
    ELSE <<[k |-> "lex", v |-> <<Head(lexs)>>]>> \o Tokens(Tail(lexs), FALSE, <<>>)

RECURSIVE SplitOn(_, _)
\* the token sequences between the occurrences of the operator `sep`
SplitOn(ts, sep) ==
    IF ts = <<>> THEN << <<>> >>
    ELSE LET rest == SplitOn(Tail(ts), sep)
         IN  IF Head(ts) = [k |-> "lex", v |-> <<sep>>]
             THEN << <<>> >> \o rest
             ELSE << <<Head(ts)>> \o rest[1] >> \o Tail(rest)

IsLex(tok, names) == tok.k = "lex" /\ tok.v[1] \in names

\* field op literal, the literal of the field's type
AtomOk(a) ==
    /\ Len(a) = 3
    /\ \/ /\ IsLex(a[1], {"price"})
          /\ IsLex(a[2], {"<=", ">", "==", "!="})
          /\ a[3].k = "lex" /\ IsNumLex(a[3].v[1])
       \/ /\ IsLex(a[1], {"category", "brand"})
          /\ IsLex(a[2], {"==", "!="})
          /\ a[3].k = "str"
       \/ /\ IsLex(a[1], {"in_stock"})
          /\ IsLex(a[2], {"==", "!="})
          /\ IsLex(a[3], {"true", "false"})

\* the disjuncts of an expression, each a sequence of atoms: && binds tighter than ||
Disjuncts(expr) ==
    LET ors == SplitOn(Tokens(expr, FALSE, <<>>), "||")
    IN  [i \in 1 .. Len(ors) |-> SplitOn(ors[i], "&&")]

ExprOk(expr) ==
    \/ expr = <<>>
    \/ LET ds == Disjuncts(expr)
       IN  \A i \in 1 .. Len(ds) : \A j \in 1 .. Len(ds[i]) : AtomOk(ds[i][j])

Compare(op, x, y) ==
    CASE op = "==" -> x = y
      [] op = "!=" -> x # y
      [] op = "<=" -> x <= y
      [] op = ">" -> x > y

EvalAtom(a, p) ==
    LET f == a[1].v[1]
        op == a[2].v[1]
    IN  CASE f = "price" -> Compare(op, p.price, ParseNum(a[3].v[1]))
          [] f = "category" -> Compare(op, p.category, a[3].v)
          [] f = "brand" -> Compare(op, p.brand, a[3].v)
          [] f = "in_stock" -> Compare(op, p.in_stock, a[3].v[1] = "true")

\* whether product p satisfies the expression; the empty expression matches all
EvalExpr(expr, p) ==
    \/ expr = <<>>
    \/ LET ds == Disjuncts(expr)
       IN  \E i \in 1 .. Len(ds) : \A j \in 1 .. Len(ds[i]) : EvalAtom(ds[i][j], p)

\* hit.distance as the index of collection d reports it: the L2 distance, lowered
\* by d.bias when the index is misconfigured (bias 0: the metric the code asks for)
Reported(d, distance) == distance - d.bias

Hit(d, row, vec) ==
    [entity |-> row.entity, distance |-> Reported(d, L2(vec, row.embedding))]

\* hits in ascending distance, ties in insertion order
Nearest(d, vec) ==
    LET Closer(x, y) == x.distance < y.distance
    IN  SortSeq([i \in 1 .. Len(d.rows) |-> Hit(d, d.rows[i], vec)], Closer)

\* Collection.search(data=[vec], limit=limit, expr=expr): the hits for the one
\* query vector, or an exception (no such collection, collection not loaded,
\* limit out of range, malformed expression)
MilvusSearch(d, vec, limit, expr) ==
    IF ~d.exists \/ ~d.loaded \/ limit < 1 \/ ~ExprOk(expr)
    THEN [raised |-> TRUE, hits |-> <<>>]
    ELSE LET Match(h) == EvalExpr(expr, h.entity)
             all == SelectSeq(Nearest(d, vec), Match)
         IN  [raised |-> FALSE,
              hits |-> IF Len(all) <= limit THEN all ELSE SubSeq(all, 1, limit)]

NoCollection ==
    [exists |-> FALSE, rows |-> <<>>, indexed |-> FALSE, flushed |-> FALSE, loaded |-> FALSE,
     bias |-> 0]

\* the rows a complete ETL run leaves for `records`
BuiltRows(records) ==
    [i \in 1 .. Len(records) |-> Row(records[i], Encode(records[i].description))]

\* the collection a complete ETL run over `records` leaves
Built(records) ==
    [exists |-> TRUE, rows |-> BuiltRows(records), indexed |-> TRUE, flushed |-> TRUE,
     loaded |-> TRUE, bias |-> 0]

BuiltCollection == Built(SourceRecords)

-----------------------------------------------------------------------------
(* The search engine: search_products_logic *)

TOP_K_DEFAULT == 5

ParamNames == {"query", "top_k", "max_price", "category", "in_stock_only", "brand"}

\* search_products_logic(**args): a TypeError when a key is no parameter or
\* `query` is missing
BindsOk(args) == DOMAIN args \subseteq ParamNames /\ "query" \in DOMAIN args

\* the parameters after binding, with the signature's defaults
Bind(args) ==
    [query |-> args["query"],
     top_k |-> Get(args, "top_k", JNum(TOP_K_DEFAULT)),
     max_price |-> Get(args, "max_price", JNull),
     category |-> Get(args, "category", JNull),
     in_stock_only |-> Get(args, "in_stock_only", JBool(FALSE)),
     brand |-> Get(args, "brand", JNull)]

\* f"{v}" of a value
PyFormat(v) ==
    CASE v.t = "num" -> <<FormatNum(v.n)>>
      [] v.t = "str" -> v.s
      [] v.t = "bool" -> IF v.b THEN <<"True">> ELSE <<"False">>
      [] v.t = "null" -> <<"None">>

\* the filter_parts list, in the order the code appends
filter_parts(a) ==
    (IF a.max_price.t # "null" THEN << <<"price", "<=">> \o PyFormat(a.max_price) >> ELSE <<>>)
    \o (IF Truthy(a.category)
        THEN << <<"category", "==", Quote>> \o PyFormat(a.category) \o <<Quote>> >> ELSE <<>>)
    \o (IF Truthy(a.in_stock_only) THEN << <<"in_stock", "==", "true">> >> ELSE <<>>)
    \o (IF Truthy(a.brand)
        THEN << <<"brand", "==", Quote>> \o PyFormat(a.brand) \o <<Quote>> >> ELSE <<>>)

\* " && ".join(filter_parts) if filter_parts else ""
filter_expr(a) == Join(filter_parts(a), <<"&&">>)

\* round(num / den) to the nearest integer, ties to even (num >= 0, den > 0)
RoundHalfEven(num, den) ==
    LET q == num \div den
        r == num % den
    IN  IF 2 * r < den THEN q
        ELSE IF 2 * r > den THEN q + 1
        ELSE IF q % 2 = 0 THEN q ELSE q + 1

\* distance / (1 + distance) in place of 1 / (1 + distance)
RelevanceTenths_complement(distance) == RoundHalfEven(1000 * distance, DistUnit + distance)

\* 1 / (1 + distance) raises ZeroDivisionError at distance -1
ZeroDivision(distance) == DistUnit + distance = 0

\* |(1 / (1 + distance)) * 100| in tenths of a percent, as ":.1f" rounds it
\* (the rounding is symmetric about 0)
RelevanceTenths(distance) ==
    IF DistUnit + distance > 0
    THEN RoundHalfEven(1000 * DistUnit, DistUnit + distance)
    ELSE RoundHalfEven(1000 * DistUnit, -(DistUnit + distance))

\* f"{(1 / (1 + hit.distance)) * 100:.1f}%": signed when 1 + distance is negative
Relevance(distance) ==
    LET t == RelevanceTenths(distance)
    IN  (IF DistUnit + distance < 0 THEN <<"-">> ELSE <<>>)
        \o <<FormatNum(t \div 10), ".", FormatNum(t % 10), "%">>

\* the number a relevance text reads as, in tenths of a percent
RelevanceValue(text) == ParseNum(text[1]) * 10 + ParseNum(text[3])

\* one entry of `products` (MCP server)
ProductEntry(hit) ==
    [product_id |-> hit.entity.product_id, name |-> hit.entity.name,
     category |-> hit.entity.category, description |-> hit.entity.description,
     price |-> hit.entity.price, in_stock |-> hit.entity.in_stock,
     brand |-> hit.entity.brand, relevance |-> Relevance(hit.distance)]

\* a call to a backend: the embedding provider (encode) or the index (search)
Call(op, arg) == [op |-> op, arg |-> arg]

Raised(cs) == [raised |-> TRUE, error |-> <<>>, query |-> <<>>, total_results |-> 0,
               products |-> <<>>, calls |-> cs]

Unavailable(msg, cs) == [raised |-> FALSE, error |-> <<msg>>, query |-> <<>>,
                         total_results |-> 0, products |-> <<>>, calls |-> cs]

Found(query, products, cs) ==
    [raised |-> FALSE, error |-> <<>>, query |-> query,
     total_results |-> Len(products), products |-> products, calls |-> cs]

\* a limit one past top_k
search_limit_plus_one(a) == a.top_k.n + 1

\* limit=top_k of collection.search
search_limit(a) == a.top_k.n

\* generate_embedding: raises when the model is not loaded
generate_embedding_raises == ~embedding_model

\* search_products_logic of the MCP server, on bound parameters
search_products_logic(a) ==
    IF ~MILVUS_READY THEN Unavailable("Milvus non connesso", <<>>)
    ELSE IF generate_embedding_raises THEN Raised(<<>>)
    ELSE LET r == MilvusSearch(db, Encode(a.query.s), search_limit(a), filter_expr(a))
             cs == <<Call("encode", a.query.s), Call("search", filter_expr(a))>>
         IN  IF r.raised THEN Raised(cs)
             ELSE IF \E i \in 1 .. Len(r.hits) : ZeroDivision(r.hits[i].distance)
             THEN Raised(cs)
             ELSE Found(a.query.s, [i \in 1 .. Len(r.hits) |-> ProductEntry(r.hits[i])], cs)

\* one entry of `products` (cloud function): no brand
GcpProductEntry(hit) ==
    [product_id |-> hit.entity.product_id, name |-> hit.entity.name,
     category |-> hit.entity.category, description |-> hit.entity.description,
     price |-> hit.entity.price, in_stock |-> hit.entity.in_stock,
     relevance |-> Relevance(hit.distance)]

\* the readiness guard of the cloud function's search_products_logic
gcp_not_ready == ~MILVUS_READY \/ ~embedding_model

\* search_products_logic of the cloud function, on bound parameters
gcp_search_products_logic(a) ==
    IF gcp_not_ready
    THEN Unavailable("Servizio non disponibile (DB o Modello offline)", <<>>)
    ELSE LET r == MilvusSearch(db, Encode(a.query.s), search_limit(a), filter_expr(a))
             cs == <<Call("encode", a.query.s), Call("search", filter_expr(a))>>
         IN  IF r.raised THEN Raised(cs)
             ELSE IF \E i \in 1 .. Len(r.hits) : ZeroDivision(r.hits[i].distance)
             THEN Raised(cs)
             ELSE Found(a.query.s, [i \in 1 .. Len(r.hits) |-> GcpProductEntry(r.hits[i])], cs)

-----------------------------------------------------------------------------
(* The protocol dispatcher: handle_mcp *)

NoArgs == [k \in {} |-> JNull]

\* what the transport sends: an HTTP error raised by the handler, an exception
\* that left the handler (the transport answers 500), or a JSON-RPC object
HttpError(status) ==
    [kind |-> "http", status |-> status, id |-> JNull, code |-> 0,
     result |-> "", content |-> Raised(<<>>)]

Propagated ==
    [kind |-> "exception", status |-> 500, id |-> JNull, code |-> 0,
     result |-> "", content |-> Raised(<<>>)]

RpcResult(id, tag, content) ==
    [kind |-> "jsonrpc", status |-> 200, id |-> id, code |-> 0,
     result |-> tag, content |-> content]

RpcError(id, code) ==
    [kind |-> "jsonrpc", status |-> 200, id |-> id, code |-> code,
     result |-> "", content |-> Raised(<<>>)]

Out(resp, cs) == [response |-> resp, calls |-> cs]

\* the error code of the `except Exception` branch of tools/call
tool_error_code == -32000

\* the tools/call branch, once params is known to be a mapping
tools_call(jsonrpc_id, params) ==
    LET arguments == params.arguments
        args == IF arguments.kind = "absent" THEN NoArgs ELSE arguments.args
    IN  IF arguments.kind \in {"null", "list", "str"}
        THEN Out(RpcError(jsonrpc_id, tool_error_code), <<>>)    \* ** of a non-mapping
        ELSE IF ~BindsOk(args)
        THEN Out(RpcError(jsonrpc_id, tool_error_code), <<>>)
        ELSE LET result == search_products_logic(Bind(args))
             IN  IF result.raised
                 THEN Out(RpcError(jsonrpc_id, tool_error_code), result.calls)
                 ELSE Out(RpcResult(jsonrpc_id, "content", result), result.calls)

\* a response that drops the id
response_id_dropped(payload) == JNull

\* the id the response carries: payload.get("id")
response_id(payload) == IF payload.has_id THEN payload.id ELSE JNull

\* handle_mcp on a request body
handle_mcp(body) ==
    IF body.kind = "invalid" THEN Out(HttpError(400), <<>>)
    ELSE IF body.kind # "obj" THEN Out(Propagated, <<>>)         \* payload.get
    ELSE LET jsonrpc_id == response_id(body)
             method == IF body.has_method THEN body.method ELSE JNull
             Is(name) == method = JStr(<<name>>)
         IN  CASE Is("initialize") -> Out(RpcResult(jsonrpc_id, "handshake", Raised(<<>>)), <<>>)
               [] Is("notifications/initialized") ->
                      Out(RpcResult(jsonrpc_id, "ack", Raised(<<>>)), <<>>)
               [] Is("tools/list") -> Out(RpcResult(jsonrpc_id, "tools", Raised(<<>>)), <<>>)
               [] Is("tools/call") ->
                      IF body.params.kind \in {"null", "list"}
                      THEN Out(Propagated, <<>>)                 \* params.get
                      ELSE tools_call(jsonrpc_id, body.params)
               [] Is("ping") -> Out(RpcResult(jsonrpc_id, "empty", Raised(<<>>)), <<>>)
               [] OTHER -> Out(RpcError(jsonrpc_id, -32601), <<>>)

-----------------------------------------------------------------------------
(* The cloud function's entry point: search_products_function *)

GcpResponse(status, content) ==
    [kind |-> "gcp", status |-> status, id |-> JNull, code |-> 0,
     result |-> "", content |-> content]

\* the keyword arguments the entry point passes: request_json[...] and .get(...)
gcp_arguments(json) ==
    [query |-> json["query"],
     top_k |-> Get(json, "top_k", JNum(TOP_K_DEFAULT)),
     max_price |-> Get(json, "max_price", JNull),
     category |-> Get(json, "category", JNull),
     in_stock_only |-> Get(json, "in_stock_only", JBool(FALSE)),
     brand |-> Get(json, "brand", JNull)]

\* search_products_function on a request: method, and the body get_json(silent=True) gives
search_products_function(req) ==
    IF req.method = "OPTIONS" THEN Out(GcpResponse(204, Raised(<<>>)), <<>>)
    ELSE IF req.json = "none" \/ "query" \notin DOMAIN req.args
    THEN Out(GcpResponse(400, Raised(<<>>)), <<>>)
    ELSE LET result == gcp_search_products_logic(gcp_arguments(req.args))
         IN  IF result.raised THEN Out(GcpResponse(500, result), result.calls)
             ELSE Out(GcpResponse(200, result), result.calls)

-----------------------------------------------------------------------------
(* The requests the model sends *)

Absent == [t |-> "absent", n |-> 0, s |-> <<>>, b |-> FALSE]

\* the mapping holding the keys of `opts` that are not Absent
Present(opts) == [k \in {x \in DOMAIN opts : opts[x].t # "absent"} |-> opts[k]]

\* Footwear" || category != "Footwear
Injection == <<"Footwear", Quote, "||", "category", "!=", Quote, "Footwear">>

ArgOptions ==
    [query : {Absent, JStr(<<"shoes">>)},
     top_k : {Absent, JNum(0), JNum(1), JNum(2)},
     max_price : {Absent, JNum(0), JNum(10)},
     category : {Absent, JStr(<<>>), JStr(<<"Footwear">>), JStr(Injection)},
     in_stock_only : {Absent, JBool(FALSE), JBool(TRUE)},
     brand : {Absent, JStr(<<>>), JStr(<<"ActiveGear">>)},
     color : {Absent, JStr(<<"red">>)}]

ArgSets == {Present(o) : o \in ArgOptions}

Arguments(kind, args) == [kind |-> kind, args |-> args]

Params(kind, arguments) == [kind |-> kind, arguments |-> arguments]

ParamValues ==
    {Params(k, Arguments("absent", NoArgs)) : k \in {"absent", "null", "list", "obj"}}
    \cup {Params("obj", Arguments(k, NoArgs)) : k \in {"null", "list", "str"}}
    \cup {Params("obj", Arguments("obj", a)) : a \in ArgSets}

Methods == {"initialize", "notifications/initialized", "tools/list", "tools/call",
            "ping", "resources/list"}

Body(kind, has_id, id, has_method, method, params) ==
    [kind |-> kind, has_id |-> has_id, id |-> id, has_method |-> has_method,
     method |-> method, params |-> params]

NoParams == Params("absent", Arguments("absent", NoArgs))

\* bodies that are not a JSON object: unparseable, or null, a list, a string, a number
NonEnvelopes ==
    {Body(k, FALSE, JNull, FALSE, JNull, NoParams) : k \in {"invalid", "null", "list", "str", "num"}}

Ids == {JNull, JNum(7), JStr(<<"a">>)}

\* the calls: every id, every params value
CallBodies ==
    {Body("obj", TRUE, i, TRUE, JStr(<<"tools/call">>), p) : i \in Ids, p \in ParamValues}
    \cup {Body("obj", FALSE, JNull, TRUE, JStr(<<"tools/call">>), p) : p \in ParamValues}

\* the other methods, an absent method and a null one
OtherBodies ==
    LET ps == {Params(k, Arguments("absent", NoArgs)) : k \in {"absent", "null", "list", "obj"}}
        ms == {JStr(<<m>>) : m \in Methods \ {"tools/call"}} \cup {JNull}
    IN  {Body("obj", TRUE, i, TRUE, m, p) : i \in Ids, m \in ms, p \in ps}
        \cup {Body("obj", FALSE, JNull, TRUE, m, p) : m \in ms, p \in ps}
        \cup {Body("obj", TRUE, i, FALSE, JNull, p) : i \in Ids, p \in ps}

Bodies == NonEnvelopes \cup CallBodies \cup OtherBodies

GcpRequest(method, json, args) == [kind |-> "gcp", method |-> method, json |-> json, args |-> args]

GcpRequests ==
    {GcpRequest("OPTIONS", "none", NoArgs), GcpRequest("POST", "none", NoArgs)}
    \cup {GcpRequest("POST", "obj", a) : a \in ArgSets}

NoRequest == [kind |-> "none"]
NoResponse == [kind |-> "none"]

-----------------------------------------------------------------------------
(* The server: module initialisation, then one request at a time *)

srv_vars == <<embedding_model, MILVUS_READY, collection, srv_pc>>
io_vars == <<request, response, calls>>
etl_vars == <<etl_pc, etl_file, etl_products, etl_embeddings, served_before, etl_log>>

NoRead == [op |-> "none", during |-> FALSE, db |-> NoCollection, log |-> <<>>]

\* whether an ETL run is under way: main has started and has neither returned nor raised
Rebuilding == etl_pc \notin {"idle", "done", "failed"}

\* a read of the collection by a reader: the collection as found, and how far
\* the ETL run had come
Read(op) == [op |-> op, during |-> Rebuilding, db |-> db, log |-> etl_log]

\* embedding_model = SentenceTransformer(...), or None when loading raises
SrvLoadModel ==
    /\ srv_pc = "model"
    /\ \E ok \in BOOLEAN : embedding_model' = ok
    /\ srv_pc' = "milvus"
    /\ UNCHANGED <<MILVUS_READY, collection, milvus_up, db, observed, scored>>
    /\ UNCHANGED io_vars /\ UNCHANGED etl_vars

\* connections.connect, utility.has_collection and Collection(COLLECTION_NAME)
SrvConnect ==
    /\ srv_pc = "milvus"
    /\ IF ~milvus_up
       THEN srv_pc' = "serving" /\ UNCHANGED <<collection, observed>>
       ELSE /\ observed' = Read("has_collection")
            /\ IF db.exists
               THEN collection' = TRUE /\ srv_pc' = "load"
               ELSE srv_pc' = "serving" /\ UNCHANGED collection
    /\ UNCHANGED <<embedding_model, MILVUS_READY, milvus_up, db, scored>>
    /\ UNCHANGED io_vars /\ UNCHANGED etl_vars

\* collection.load() and MILVUS_READY = True; load raises when the collection
\* is gone or has no index
SrvLoad ==
    /\ srv_pc = "load"
    /\ observed' = Read("load")
    /\ IF db.exists /\ db.indexed
       THEN db' = [db EXCEPT !.loaded = TRUE] /\ MILVUS_READY' = TRUE
       ELSE UNCHANGED <<db, MILVUS_READY>>
    /\ srv_pc' = "serving"
    /\ UNCHANGED <<embedding_model, collection, milvus_up, scored>>
    /\ UNCHANGED io_vars /\ UNCHANGED etl_vars

\* POST /mcp with a body of `bodies`
ReceiveFrom(bodies) ==
    /\ srv_pc = "serving"
    /\ response = NoResponse
    /\ \E body \in bodies :
         LET out == handle_mcp(body)
         IN  /\ request' = body
             /\ response' = out.response
             /\ calls' = out.calls
             /\ observed' = IF out.calls # <<>> /\ out.calls[Len(out.calls)].op = "search"
                            THEN Read("search") ELSE observed
    /\ UNCHANGED <<milvus_up, db, scored>>
    /\ UNCHANGED srv_vars /\ UNCHANGED etl_vars

Receive == ReceiveFrom(Bodies)

\* the cloud function's entry point on one request of `reqs`
InvokeFrom(reqs) ==
    /\ srv_pc = "serving"
    /\ response = NoResponse
    /\ \E req \in reqs :
         LET out == search_products_function(req)
         IN  /\ request' = req
             /\ response' = out.response
             /\ calls' = out.calls
    /\ UNCHANGED <<milvus_up, db, observed, scored>>
    /\ UNCHANGED srv_vars /\ UNCHANGED etl_vars

Invoke == InvokeFrom(GcpRequests)

\* the transport sends the response; the next request can come
Send ==
    /\ response # NoResponse
    /\ request' = NoRequest
    /\ response' = NoResponse
    /\ calls' = <<>>
    /\ UNCHANGED <<milvus_up, db, observed, scored>>
    /\ UNCHANGED srv_vars /\ UNCHANGED etl_vars

InitServer ==
    /\ embedding_model = FALSE
    /\ MILVUS_READY = FALSE
    /\ collection = FALSE
    /\ srv_pc = "model"
    /\ request = NoRequest
    /\ response = NoResponse
    /\ calls = <<>>
    /\ observed = NoRead

InitEtlIdle ==
    /\ etl_pc = "idle"
    /\ etl_file = [kind |-> "ok", records |-> <<>>]
    /\ etl_products = <<>>
    /\ etl_embeddings = <<>>
    /\ served_before = NoCollection
    /\ etl_log = <<>>

\* the server and the cloud function over a catalog that is built, or absent
InitMcp ==
    /\ InitServer
    /\ InitEtlIdle
    /\ milvus_up \in BOOLEAN
    /\ db \in {NoCollection, BuiltCollection}
    /\ scored = <<>>

NextMcp ==
    \/ SrvLoadModel
    \/ SrvConnect
    \/ SrvLoad
    \/ Receive
    \/ Invoke
    \/ Send

SpecMcp == InitMcp /\ [][NextMcp]_vars

-----------------------------------------------------------------------------
(* The catalog ETL: main of etl/ingest.py, one step per call to the index *)

RecordKeys == {"product_id", "name", "description", "category", "price", "in_stock", "brand"}

\* a record of the file without one of its fields
Without(p, key) == [k \in DOMAIN p \ {key} |-> p[k]]

\* the collection serving before the run
OldRecords ==
    << Product(1, "Trail Runner", "d1", "Footwear", 8, TRUE, "ActiveGear"),
       Product(9, "Retired Sandal", "d9", "Footwear", 3, TRUE, "TrailPro") >>

\* products.json as the run finds it: absent, not JSON, or a list of records,
\* one of which may lack a field
Files ==
    {[kind |-> k, records |-> <<>>] : k \in {"missing", "invalid_json"}}
    \cup {[kind |-> "ok", records |-> r] :
            r \in {SourceRecords,
                   SubSeq(SourceRecords, 1, 2),
                   <<SourceRecords[1], Without(SourceRecords[2], "description")>>,
                   <<SourceRecords[1], Without(SourceRecords[2], "price")>>}}

EmptyCollection ==
    [exists |-> TRUE, rows |-> <<>>, indexed |-> FALSE, flushed |-> FALSE, loaded |-> FALSE,
     bias |-> 0]

\* create_collection without its drop
drop_skipped(d) == d

\* utility.drop_collection(COLLECTION_NAME) when has_collection
drop_existing(d) == NoCollection

\* Collection(name=COLLECTION_NAME, schema=schema): creates the collection, or
\* binds to the one that exists
create_new(d) == IF d.exists THEN d ELSE EmptyCollection

\* a bulk insert whose embedding column runs against the order of the records
inserted_misaligned(d, products, embeddings) ==
    [d EXCEPT !.rows = d.rows \o [i \in 1 .. Len(products) |->
                                     Row(products[i], embeddings[Len(products) + 1 - i])],
              !.flushed = FALSE]

\* collection.insert(data): one bulk insert of products[i] with embeddings[i]
inserted(d, products, embeddings) ==
    [d EXCEPT !.rows = d.rows \o [i \in 1 .. Len(products) |-> Row(products[i], embeddings[i])],
              !.flushed = FALSE]

etl_rest == <<embedding_model, MILVUS_READY, collection, srv_pc, milvus_up, request,
              response, calls, observed, scored, etl_file, served_before>>

Fail == etl_pc' = "failed"

\* connect_to_milvus: raises when Milvus cannot be reached
EtlConnect ==
    /\ etl_pc = "connect"
    /\ IF milvus_up THEN etl_pc' = "drop" ELSE Fail
    /\ UNCHANGED <<db, etl_products, etl_embeddings, etl_log>>
    /\ UNCHANGED etl_rest

\* create_collection: has_collection and drop_collection
EtlDrop ==
    /\ etl_pc = "drop"
    /\ IF db.exists
       THEN db' = drop_existing(db) /\ etl_log' = Append(etl_log, "drop")
       ELSE UNCHANGED <<db, etl_log>>
    /\ etl_pc' = "create"
    /\ UNCHANGED <<etl_products, etl_embeddings>>
    /\ UNCHANGED etl_rest

\* create_collection: Collection(name, schema)
EtlCreate ==
    /\ etl_pc = "create"
    /\ db' = create_new(db)
    /\ etl_log' = Append(etl_log, "create")
    /\ etl_pc' = "index"
    /\ UNCHANGED <<etl_products, etl_embeddings>>
    /\ UNCHANGED etl_rest

\* create_collection: collection.create_index on the embedding field
EtlCreateIndex ==
    /\ etl_pc = "index"
    /\ db' = [db EXCEPT !.indexed = TRUE]
    /\ etl_log' = Append(etl_log, "create_index")
    /\ etl_pc' = "read"
    /\ UNCHANGED <<etl_products, etl_embeddings>>
    /\ UNCHANGED etl_rest

\* load_products: raises when the file is absent or is not JSON
EtlLoadProducts ==
    /\ etl_pc = "read"
    /\ IF etl_file.kind = "ok"
       THEN etl_products' = etl_file.records /\ etl_pc' = "embed"
       ELSE Fail /\ UNCHANGED etl_products
    /\ UNCHANGED <<db, etl_embeddings, etl_log>>
    /\ UNCHANGED etl_rest

\* steps 4 and 5: the model, then one embedding per p["description"] (KeyError
\* when a record has none)
EtlEmbed ==
    /\ etl_pc = "embed"
    /\ IF \A i \in DOMAIN etl_products : "description" \in DOMAIN etl_products[i]
       THEN /\ etl_embeddings' = [i \in DOMAIN etl_products |-> Encode(etl_products[i].description)]
            /\ etl_pc' = "insert"
       ELSE Fail /\ UNCHANGED etl_embeddings
    /\ UNCHANGED <<db, etl_products, etl_log>>
    /\ UNCHANGED etl_rest

\* insert_products: the columns (KeyError when a record lacks a field), then
\* collection.insert
EtlInsert ==
    /\ etl_pc = "insert"
    /\ IF \A i \in DOMAIN etl_products : RecordKeys \subseteq DOMAIN etl_products[i]
       THEN /\ db' = inserted(db, etl_products, etl_embeddings)
            /\ etl_log' = Append(etl_log, "insert")
            /\ etl_pc' = "flush"
       ELSE Fail /\ UNCHANGED <<db, etl_log>>
    /\ UNCHANGED <<etl_products, etl_embeddings>>
    /\ UNCHANGED etl_rest

\* insert_products: collection.flush
EtlFlush ==
    /\ etl_pc = "flush"
    /\ db' = [db EXCEPT !.flushed = TRUE]
    /\ etl_log' = Append(etl_log, "flush")
    /\ etl_pc' = "load"
    /\ UNCHANGED <<etl_products, etl_embeddings>>
    /\ UNCHANGED etl_rest

\* step 7: collection.load, then main returns
EtlLoad ==
    /\ etl_pc = "load"
    /\ db' = [db EXCEPT !.loaded = TRUE]
    /\ etl_log' = Append(etl_log, "load")
    /\ etl_pc' = "done"
    /\ UNCHANGED <<etl_products, etl_embeddings>>
    /\ UNCHANGED etl_rest

\* a read-only search: tools/call with a query and no filter
ProbeBody ==
    Body("obj", TRUE, JNum(7), TRUE, JStr(<<"tools/call">>),
         Params("obj", Arguments("obj", Present([query |-> JStr(<<"shoes">>)]))))

Probe == ReceiveFrom({ProbeBody})

\* an ETL run over a collection that is absent or serving, with a server
\* starting and answering searches at any point of it
InitEtl ==
    /\ InitServer
    /\ milvus_up \in BOOLEAN
    /\ db \in {NoCollection, Built(OldRecords)}
    /\ served_before = db
    /\ etl_pc = "connect"
    /\ etl_file \in Files
    /\ etl_products = <<>>
    /\ etl_embeddings = <<>>
    /\ etl_log = <<>>
    /\ scored = <<>>

NextEtl ==
    \/ EtlConnect
    \/ EtlDrop
    \/ EtlCreate
    \/ EtlCreateIndex
    \/ EtlLoadProducts
    \/ EtlEmbed
    \/ EtlInsert
    \/ EtlFlush
    \/ EtlLoad
    \/ SrvLoadModel
    \/ SrvConnect
    \/ SrvLoad
    \/ Probe
    \/ Send

SpecEtl == InitEtl /\ [][NextEtl]_vars

-----------------------------------------------------------------------------
(* Claims about the dispatcher and the search engine, under SpecMcp *)

Answered == response.kind # "none"

IsEnvelope == request.kind = "obj"

MethodIs(name) == IsEnvelope /\ request.has_method /\ request.method = JStr(<<name>>)

KnownMethods == {"initialize", "notifications/initialized", "tools/list", "tools/call", "ping"}

\* the arguments of the request, when it carries a mapping of them
HasArgs ==
    \/ request.kind = "gcp" /\ request.json = "obj"
    \/ MethodIs("tools/call") /\ request.params.kind \in {"absent", "obj"}
       /\ request.params.arguments.kind \in {"absent", "obj"}

RequestArgs == IF request.kind = "gcp" THEN request.args ELSE request.params.arguments.args

\* the call reaches search_products_logic with its parameters bound
ReachesLogic ==
    /\ HasArgs
    /\ IF request.kind = "gcp" THEN "query" \in DOMAIN RequestArgs ELSE BindsOk(RequestArgs)

\* the search returned products
Succeeded ==
    /\ ReachesLogic
    /\ response.kind \in {"jsonrpc", "gcp"}
    /\ response.status = 200 /\ response.code = 0
    /\ ~response.content.raised /\ response.content.error = <<>>

\* C1: every tools/call of a parsed body is answered by a JSON-RPC object, and a
\* call that cannot be executed (params or arguments null or not objects, a
\* missing query, an unexpected argument name) by the error -32000; no exception
\* leaves handle_mcp.
C1_CallNeverPropagates ==
    (MethodIs("tools/call") /\ Answered) =>
        /\ response.kind = "jsonrpc"
        /\ (~ReachesLogic => response.code = -32000)

\* C2: a body that is not a JSON object (unparseable, or null, a list, a string,
\* a number) is rejected with a 4xx status before dispatch, and no backend is called.
C2_MalformedBodyRejected ==
    (request.kind \in {"invalid", "null", "list", "str", "num"} /\ Answered) =>
        /\ response.kind = "http"
        /\ response.status \in 400 .. 499
        /\ calls = <<>>

\* C3: when the embedding model is missing or the index is not ready, both
\* search_products_logic return an error payload as a value: nothing is raised
\* and neither the embedding provider nor the index is called.
C3_UnavailableIsAValue ==
    (ReachesLogic /\ Answered /\ (~embedding_model \/ ~MILVUS_READY)) =>
        /\ response.kind \in {"jsonrpc", "gcp"}
        /\ response.status = 200 /\ response.code = 0
        /\ ~response.content.raised
        /\ response.content.error # <<>>
        /\ calls = <<>>

RequestId == IF request.has_id THEN request.id ELSE JNull

UnknownMethod ==
    IsEnvelope /\ ~(\E m \in KnownMethods : MethodIs(m))

\* C4: a method that is none of the five known ones (or is absent) is answered
\* by the error -32601 carrying the request's id, without any backend call; and
\* every JSON-RPC response carries the id of its request (null when it has none).
C4_UnknownMethodAndIdEcho ==
    (IsEnvelope /\ Answered) =>
        /\ UnknownMethod => (response = RpcError(RequestId, -32601) /\ calls = <<>>)
        /\ response.kind = "jsonrpc" => response.id = RequestId

C4_Witness ==
    /\ MethodIs("resources/list")
    /\ request.has_id /\ request.id = JNum(7)
    /\ response.kind = "jsonrpc" /\ response.code = -32601 /\ response.id = JNum(7)

\* the constraints of the fields that are present (not absent, not null), in
\* the builder's order
ExpectedParts(args) ==
    LET has(k) == k \in DOMAIN args /\ args[k].t # "null"
    IN  (IF has("max_price") THEN << <<"price", "<=", FormatNum(args["max_price"].n)>> >> ELSE <<>>)
        \o (IF has("category")
            THEN << <<"category", "==", Quote>> \o args["category"].s \o <<Quote>> >> ELSE <<>>)
        \o (IF has("in_stock_only") /\ args["in_stock_only"].b
            THEN << <<"in_stock", "==", "true">> >> ELSE <<>>)
        \o (IF has("brand")
            THEN << <<"brand", "==", Quote>> \o args["brand"].s \o <<Quote>> >> ELSE <<>>)

\* C5: the predicate handed to the index is the conjunction of exactly the
\* constraints of the fields that are present, an empty category or brand and a
\* zero max_price included, and the empty predicate when none is.
C5_PredicateOfPresentFields ==
    (ReachesLogic /\ Answered) =>
        \A i \in DOMAIN calls :
            calls[i].op = "search" => calls[i].arg = Join(ExpectedParts(RequestArgs), <<"&&">>)

\* C6: a search with a max_price and a (non-empty) category returns no product
\* above max_price and none of another category, whatever the category text holds.
C6_FiltersBindResults ==
    (Succeeded /\ request.kind = "obj") =>
        \A i \in DOMAIN response.content.products :
            LET p == response.content.products[i]
                a == Bind(RequestArgs)
            IN  /\ a.max_price.t = "num" => p.price <= a.max_price.n
                /\ Truthy(a.category) => p.category = a.category.s

\* the distance of a returned product from the query
DistanceOf(query, p) == L2(Encode(query), Encode(p.description))

\* C7: a successful search with a positive top_k returns at most top_k products,
\* total_results is their number, and they come in ascending distance.
C7_AtMostTopKInOrder ==
    (Succeeded /\ request.kind = "obj" /\ Bind(RequestArgs).top_k.n > 0) =>
        LET r == response.content
        IN  /\ Len(r.products) <= Bind(RequestArgs).top_k.n
            /\ r.total_results = Len(r.products)
            /\ \A i, j \in DOMAIN r.products :
                   i < j => DistanceOf(r.query, r.products[i]) <= DistanceOf(r.query, r.products[j])

\* top_k = 2 cuts the four matches to the nearest two
C7_Witness ==
    /\ Succeeded /\ request.kind = "obj"
    /\ RequestArgs = Present([query |-> JStr(<<"shoes">>), top_k |-> JNum(2)])
    /\ response.content.total_results = 2
    /\ response.content.products[1].product_id = 1
    /\ response.content.products[2].product_id = 2

-----------------------------------------------------------------------------
(* Claims about the catalog build, under SpecEtl *)

\* C8: when the build fails, the collection that was serving before the run is
\* still there with its rows: not dropped, not emptied, holding no part of the input.
C8_FailedBuildLeavesCollection ==
    (etl_pc = "failed" /\ served_before.exists) =>
        /\ db.exists
        /\ db.rows = served_before.rows

\* the read found the collection that served before the run, whole and loaded
SawOld ==
    /\ served_before.exists
    /\ observed.db.exists /\ observed.db.loaded
    /\ observed.db.rows = served_before.rows
    /\ observed.log = <<>>

\* C10: every read during the rebuild finds the complete old collection or no
\* collection: never one that exists and is empty, partly filled or not loaded.
C10_ReadsSeeOldOrNothing ==
    (observed.op # "none" /\ observed.during) => (SawOld \/ ~observed.db.exists)

\* C10, amended: every read during the rebuild finds no collection, the
\* complete old collection, or the collection being built, which is empty
\* before the bulk insert and holds exactly the input rows after it (and may be
\* without index or not loaded); never old rows beside new ones, never a part
\* of the input.
C10_ReadsSeeOldAbsentOrNew ==
    (observed.op # "none" /\ observed.during) =>
        \/ ~observed.db.exists
        \/ SawOld
        \/ observed.db.rows = <<>>
        \/ etl_file.kind = "ok" /\ observed.db.rows = BuiltRows(etl_file.records)

\* a search during the rebuild answered from the new, still empty collection
C10_Witness ==
    /\ observed.op = "search" /\ observed.during
    /\ served_before.exists
    /\ observed.db.exists /\ observed.db.loaded /\ observed.db.rows = <<>>
    /\ response.kind = "jsonrpc" /\ response.code = 0
    /\ response.content.total_results = 0

\* the calls a successful run made to the index before the collection's creation
DropStep == IF served_before.exists THEN <<"drop">> ELSE <<>>

\* the collection is loaded and holds the input rows, row i carrying the
\* embedding of record i's description
BuiltAndLoaded ==
    /\ db.exists /\ db.indexed /\ db.flushed /\ db.loaded
    /\ Len(db.rows) = Len(etl_file.records)
    /\ \A i \in DOMAIN db.rows :
           db.rows[i] = Row(etl_file.records[i], Encode(etl_file.records[i].description))

\* C11: a successful build drops any existing collection, creates the
\* collection, inserts all rows in one bulk insert, flushes, then builds the
\* index, then loads; the index build never precedes the insert, and the
\* collection is loaded and holds all input rows when the build returns.
C11_IndexAfterInsert ==
    etl_pc = "done" =>
        /\ etl_log = DropStep \o <<"create", "insert", "flush", "create_index", "load">>
        /\ BuiltAndLoaded

\* C11, amended: a successful build drops any existing collection, creates the
\* collection, builds the index on the still empty collection, inserts all rows
\* in one bulk insert, flushes, then loads; the collection is loaded and holds
\* all input rows when the build returns.
C11_IndexBeforeInsert ==
    etl_pc = "done" =>
        /\ etl_log = DropStep \o <<"create", "create_index", "insert", "flush", "load">>
        /\ BuiltAndLoaded

\* a run over the four records that replaced a serving collection
C11_Witness ==
    /\ etl_pc = "done"
    /\ served_before.exists
    /\ etl_log = <<"drop", "create", "create_index", "insert", "flush", "load">>
    /\ etl_file.records = SourceRecords
    /\ db.loaded /\ Len(db.rows) = 4

-----------------------------------------------------------------------------
(* The relevance transform on its own: the loop over the hits of one search *)

Distances == (0 .. MaxNear) \cup {FarDistance}

\* one turn of `for hit in hits`: the relevance of a hit at distance d
ScoreHit ==
    /\ Len(scored) < MaxHits
    /\ \E d \in Distances :
         scored' = Append(scored, [distance |-> d, relevance |-> Relevance(d)])
    /\ UNCHANGED <<milvus_up, db, observed>>
    /\ UNCHANGED srv_vars /\ UNCHANGED io_vars /\ UNCHANGED etl_vars

InitScore ==
    /\ InitServer
    /\ InitEtlIdle
    /\ milvus_up = FALSE
    /\ db = NoCollection
    /\ scored = <<>>

NextScore == ScoreHit

SpecScore == InitScore /\ [][NextScore]_vars

-----------------------------------------------------------------------------
(* Claims about the relevance transform, under SpecScore *)

Percent(whole, tenth) == <<FormatNum(whole), ".", FormatNum(tenth), "%">>

\* distance 0 gives "100.0%" and distance 1 gives "50.0%"
FixedPoints ==
    \A i \in DOMAIN scored :
        /\ scored[i].distance = 0 => scored[i].relevance = Percent(100, 0)
        /\ scored[i].distance = DistUnit => scored[i].relevance = Percent(50, 0)

\* C9: distance 0 gives "100.0%", distance 1 gives "50.0%", a smaller distance
\* gives a strictly greater relevance, and every relevance lies in (0, 100].
C9_StrictlyDecreasing ==
    /\ FixedPoints
    /\ \A i \in DOMAIN scored :
           RelevanceValue(scored[i].relevance) > 0 /\ RelevanceValue(scored[i].relevance) <= 1000
    /\ \A i, j \in DOMAIN scored :
           scored[i].distance < scored[j].distance =>
               RelevanceValue(scored[i].relevance) > RelevanceValue(scored[j].relevance)

\* C9, amended: distance 0 gives "100.0%", distance 1 gives "50.0%", a smaller
\* distance never gives a smaller relevance, and every relevance lies in [0, 100].
C9_NonIncreasing ==
    /\ FixedPoints
    /\ \A i \in DOMAIN scored :
           RelevanceValue(scored[i].relevance) >= 0 /\ RelevanceValue(scored[i].relevance) <= 1000
    /\ \A i, j \in DOMAIN scored :
           scored[i].distance < scored[j].distance =>
               RelevanceValue(scored[i].relevance) >= RelevanceValue(scored[j].relevance)

\* distances 15 and 15.25 are both rendered "6.2%"
C9_Witness ==
    /\ Len(scored) = 2
    /\ scored[1].distance = 15 * DistUnit
    /\ scored[2].distance = 15 * DistUnit + 1
    /\ scored[1].relevance = Percent(6, 2)
    /\ scored[2].relevance = scored[1].relevance

-----------------------------------------------------------------------------
(* Searches over a collection whose index misreports its distances *)

\* searches for "shoes": unfiltered or within Footwear, with or without top_k
BiasArgs ==
    {Present(o) : o \in [query : {JStr(<<"shoes">>)},
                         top_k : {Absent, JNum(1), JNum(2)},
                         category : {Absent, JStr(<<"Footwear">>)}]}

BiasBodies ==
    {Body("obj", TRUE, JNum(7), TRUE, JStr(<<"tools/call">>),
          Params("obj", Arguments("obj", a))) : a \in BiasArgs}

BiasRequests == {GcpRequest("POST", "obj", a) : a \in BiasArgs}

Search == ReceiveFrom(BiasBodies)

GcpSearch == InvokeFrom(BiasRequests)

\* the built catalog behind an index that reports every distance lowered by up
\* to MaxBias / DistUnit
InitBias ==
    /\ InitServer
    /\ InitEtlIdle
    /\ milvus_up = TRUE
    /\ db \in {[BuiltCollection EXCEPT !.bias = b] : b \in 0 .. MaxBias}
    /\ scored = <<>>

NextBias ==
    \/ SrvLoadModel
    \/ SrvConnect
    \/ SrvLoad
    \/ Search
    \/ GcpSearch
    \/ Send

SpecBias == InitBias /\ [][NextBias]_vars

-----------------------------------------------------------------------------
(* Claims about hits at a negative distance, under SpecBias *)

\* what the index returns for the request being answered
IndexHits ==
    LET a == IF request.kind = "gcp" THEN gcp_arguments(RequestArgs) ELSE Bind(RequestArgs)
    IN  MilvusSearch(db, Encode(a.query.s), search_limit(a), filter_expr(a))

\* the search reached the index, which returned a hit at a distance below 0
NegativeHit ==
    /\ ReachesLogic /\ embedding_model /\ MILVUS_READY
    /\ ~IndexHits.raised
    /\ \E i \in DOMAIN IndexHits.hits : IndexHits.hits[i].distance < 0

\* C12: when the index returns a hit at a negative distance, the search raises
\* (the dispatcher answers with the error -32000) and no result carrying a
\* relevance computed from that distance is returned.
C12_NegativeDistanceRaises ==
    (Answered /\ NegativeHit) =>
        /\ response.content.raised
        /\ response.content.products = <<>>
        /\ request.kind = "obj" => response = RpcError(RequestId, tool_error_code)

=============================================================================
